---- MODULE Spec2Model ----
(***************************************************************************)
(* A model of pybotvac/robot.py: the Robot command client and the Auth     *)
(* request signer.                                                         *)
(*                                                                         *)
(* Python str values that the code inspects character by character (the    *)
(* serial, which is lower-cased, and the secret, which becomes the HMAC    *)
(* key) are sequences of one-character strings.  Text that is only         *)
(* concatenated (the URL, the Date value, the JSON body, the signing       *)
(* string) is a TLA+ string.                                               *)
(*                                                                         *)
(* HMAC-SHA256 is modelled symbolically: the digest is a term over the     *)
(* block-sized key and the message, so two digests are equal exactly when  *)
(* HMAC is fed the same padded key and the same message.  The sampled       *)
(* characters are ASCII, which UTF-8 encodes as one byte each of the same  *)
(* value, so a character sequence also stands for its encoded bytes.       *)
(***************************************************************************)
EXTENDS Integers, Sequences, FiniteSets, TLC

VARIABLES
    pc,                 \* "new" before Robot(...), "ready" once __init__ returned, "failed" if it raised
    serial,             \* self.serial
    secret,             \* self.secret
    url,                \* self._url
    headers,            \* self._headers
    availableServices,  \* self.availableServices
    now,                \* the wall clock time.gmtime() reads, seconds since the epoch
    posted,             \* number of requests.post calls made so far
    lastPost,           \* the request the latest requests.post dispatched
    lastResponse,       \* what the transport answered to lastPost
    result,             \* outcome of the latest public call: what it returned or raised
    sigIn,              \* signer harness: the two signing inputs under comparison
    sigOut              \* signer harness: the two Authorization values produced for sigIn

vars == <<pc, serial, secret, url, headers, availableServices, now, posted,
          lastPost, lastResponse, result, sigIn, sigOut>>

client == <<serial, secret, url, headers, availableServices>>

----------------------------------------------------------------------------
(* Bounds and sampled inputs *)

MaxRequests == 3

NUL == "<NUL>"

Serials == { <<"O", "p", "7">>, <<"o", "p", "7">>, <<"o", "p", "8">> }

Secrets == { <<"k", "1">>, <<"k", "1", NUL>>, <<"k", "2">> }

\* 1972-02-29 23:59:59 and 1973-11-02 08:05:09
SampleTimes == {68255999, 121075509}

Modes == {1, 2}

NavigationModes == {1, 2}

KnownVersions == {"basic-1", "minimal-2", "basic-2"}

Versions == KnownVersions \cup {"weird-9"}

----------------------------------------------------------------------------
(* str helpers *)

UpperLetters == <<"A","B","C","D","E","F","G","H","I","J","K","L","M",
                  "N","O","P","Q","R","S","T","U","V","W","X","Y","Z">>

LowerLetters == <<"a","b","c","d","e","f","g","h","i","j","k","l","m",
                  "n","o","p","q","r","s","t","u","v","w","x","y","z">>

LowerChar(c) ==
    IF \E i \in 1..26 : UpperLetters[i] = c
    THEN LowerLetters[CHOOSE i \in 1..26 : UpperLetters[i] = c]
    ELSE c

\* str.lower()
Lower(s) == [i \in 1..Len(s) |-> LowerChar(s[i])]

RECURSIVE Str(_)
\* the text of a character sequence
Str(s) == IF s = <<>> THEN "" ELSE Head(s) \o Str(Tail(s))

\* '\n'.join(parts)
RECURSIVE JoinNewline(_)
JoinNewline(parts) ==
    IF parts = <<>> THEN ""
    ELSE IF Len(parts) = 1 THEN parts[1]
    ELSE parts[1] \o "\n" \o JoinNewline(Tail(parts))

----------------------------------------------------------------------------
(* time.gmtime and time.strftime('%a, %d %h %Y %H:%M:%S', ...) *)

IsLeap(y) == (y % 4 = 0 /\ y % 100 # 0) \/ y % 400 = 0

DaysInYear(y) == IF IsLeap(y) THEN 366 ELSE 365

DaysInMonth(y, m) ==
    IF m = 2 THEN (IF IsLeap(y) THEN 29 ELSE 28)
    ELSE IF m \in {4, 6, 9, 11} THEN 30 ELSE 31

RECURSIVE YearFrom(_, _)
\* <<year, day of year counted from 0>> of a day count that starts at 1 Jan of y
YearFrom(days, y) ==
    IF days < DaysInYear(y) THEN <<y, days>> ELSE YearFrom(days - DaysInYear(y), y + 1)

RECURSIVE MonthFrom(_, _, _)
\* <<month, day of month>> of a day of year counted from 0
MonthFrom(yday, y, m) ==
    IF yday < DaysInMonth(y, m) THEN <<m, yday + 1>>
    ELSE MonthFrom(yday - DaysInMonth(y, m), y, m + 1)

gmtime(t) ==
    LET days == t \div 86400
        secs == t % 86400
        yd   == YearFrom(days, 1970)
        md   == MonthFrom(yd[2], yd[1], 1)
    IN  [tm_year |-> yd[1], tm_mon |-> md[1], tm_mday |-> md[2],
         tm_hour |-> secs \div 3600, tm_min |-> (secs % 3600) \div 60,
         tm_sec |-> secs % 60,
         tm_wday |-> (days + 3) % 7]

DayNames == <<"Mon", "Tue", "Wed", "Thu", "Fri", "Sat", "Sun">>

MonthNames == <<"Jan", "Feb", "Mar", "Apr", "May", "Jun",
                "Jul", "Aug", "Sep", "Oct", "Nov", "Dec">>

Pad2(n) == IF n < 10 THEN "0" \o ToString(n) ELSE ToString(n)

\* time.strftime('%a, %d %h %Y %H:%M:%S', tm) + ' GMT'
FormatDate(t) ==
    LET tm == gmtime(t)
    IN  DayNames[tm.tm_wday + 1] \o ", " \o Pad2(tm.tm_mday) \o " "
        \o MonthNames[tm.tm_mon] \o " " \o ToString(tm.tm_year) \o " "
        \o Pad2(tm.tm_hour) \o ":" \o Pad2(tm.tm_min) \o ":" \o Pad2(tm.tm_sec)
        \o " GMT"

----------------------------------------------------------------------------
(* The JSON body requests.post(json=...) serialises: json.dumps with its     *)
(* default separators, keys in the order the dict literals list them.        *)

ParamKeyOrder == <<"category", "mode", "modifier", "navigationMode">>

RECURSIVE ParamItems(_, _)
ParamItems(params, keys) ==
    IF keys = <<>> THEN <<>>
    ELSE IF Head(keys) \in DOMAIN params
         THEN <<"\"" \o Head(keys) \o "\": " \o ToString(params[Head(keys)])>>
              \o ParamItems(params, Tail(keys))
         ELSE ParamItems(params, Tail(keys))

RECURSIVE JoinComma(_)
JoinComma(items) ==
    IF items = <<>> THEN ""
    ELSE IF Len(items) = 1 THEN items[1]
    ELSE items[1] \o ", " \o JoinComma(Tail(items))

JsonDumps(json) ==
    "{\"reqId\": \"" \o json.reqId \o "\", \"cmd\": \"" \o json.cmd \o "\""
    \o (IF "params" \in DOMAIN json
        THEN ", \"params\": {" \o JoinComma(ParamItems(json.params, ParamKeyOrder)) \o "}"
        ELSE "")
    \o "}"

----------------------------------------------------------------------------
(* class Auth *)

\* block size of SHA-256, in bytes
BlockSize == 64

RECURSIVE StripNul(_)
\* a byte string without the zero bytes at its end
StripNul(k) ==
    IF k # <<>> /\ k[Len(k)] = NUL THEN StripNul(SubSeq(k, 1, Len(k) - 1)) ELSE k

\* hmac.new(key=...): a key longer than the block is hashed first, and the key
\* is then padded with zero bytes to the block size.  The padded block is
\* written as the bytes before its final run of zero bytes and the length of
\* that run.
HmacKey(key) ==
    IF Len(key) > BlockSize
    THEN [hashed |-> TRUE, bytes |-> key, zeros |-> 0]
    ELSE [hashed |-> FALSE,
          bytes  |-> StripNul(key),
          zeros  |-> BlockSize - Len(StripNul(key))]

\* hmac.new(key, msg, 'sha256').hexdigest(), as a symbolic digest
HmacSha256Hex(key, msg) == [alg |-> "hmac-sha256", key |-> HmacKey(key), msg |-> msg]

\* a signing string that leaves the Date value out
SigningStringNoDate(ser, date, body) == JoinNewline(<<Str(Lower(ser)), body>>)

\* the signing string: '\n'.join([self.serial.lower(), date, request.body.decode('utf8')])
SigningString(ser, date, body) == JoinNewline(<<Str(Lower(ser)), date, body>>)

\* the Authorization value: "NEATOAPP " + signing.hexdigest()
Authorization(ser, sec, date, body) ==
    <<"NEATOAPP ", HmacSha256Hex(sec, SigningString(ser, date, body))>>

\* a signer that does not lower-case the serial
AuthCallNoLower(request, ser, sec, t) ==
    LET date == FormatDate(t)
        auth == <<"NEATOAPP ", HmacSha256Hex(sec, JoinNewline(<<Str(ser), date, request.body>>))>>
    IN  [request EXCEPT !.headers =
            [k \in DOMAIN request.headers \cup {"Date", "Authorization"} |->
                IF k = "Date" THEN date
                ELSE IF k = "Authorization" THEN auth
                ELSE request.headers[k]]]

\* Auth.__call__(request) at clock reading t
AuthCall(request, ser, sec, t) ==
    LET date == FormatDate(t)
        auth == Authorization(ser, sec, date, request.body)
    IN  [request EXCEPT !.headers =
            [k \in DOMAIN request.headers \cup {"Date", "Authorization"} |->
                IF k = "Date" THEN date
                ELSE IF k = "Authorization" THEN auth
                ELSE request.headers[k]]]

----------------------------------------------------------------------------
(* The transport: what the cloud endpoint may answer *)

StateDoc(v, e) ==
    [availableServices |-> [houseCleaning |-> v],
     details |-> [isScheduleEnabled |-> e]]

Docs == { StateDoc("basic-1", TRUE), StateDoc("minimal-2", FALSE),
          StateDoc("basic-2", TRUE), StateDoc("weird-9", FALSE) }

\* a response whose body is not JSON
NoBody == [empty |-> TRUE]

ConnectionError == [kind |-> "ConnectionError"]

HttpResponse(status, doc) == [kind |-> "response", status |-> status, json |-> doc]

Responses ==
    {ConnectionError}
    \cup { HttpResponse(200, d) : d \in Docs }
    \cup { HttpResponse(s, NoBody) : s \in {304, 404, 500} }

\* response.json(): the parsed body, or ValueError when the body is not JSON
ResponseJson(resp) ==
    IF resp.json = NoBody THEN [kind |-> "raise", exc |-> [type |-> "ValueError"]]
    ELSE [kind |-> "return", value |-> resp.json]

\* response.raise_for_status(): raises HTTPError for 4xx and 5xx
RaisesForStatus(resp) == 400 <= resp.status /\ resp.status < 600

----------------------------------------------------------------------------
(* Outcomes of a call *)

Return(v) == [kind |-> "return", value |-> v]

Raise(e) == [kind |-> "raise", exc |-> e]

HTTPError(resp) == [type |-> "HTTPError", status |-> resp.status, response |-> resp]

UnknownVersion(v) ==
    [type |-> "Exception",
     message |-> "Version " \o v \o " of service houseCleaning is not known"]

NoResult == [op |-> "none", args |-> <<>>, outcome |-> [kind |-> "none"]]

----------------------------------------------------------------------------
(* class Robot *)

Self == [serial |-> serial, secret |-> secret, url |-> url, headers |-> headers]

\* the request requests.post prepares: the JSON body, the client's headers,
\* then auth=Auth(self.serial, self.secret) applied to it
PreparedRequest(self, json, t) ==
    AuthCall([url |-> self.url, json |-> json, body |-> JsonDumps(json),
              headers |-> self.headers],
             self.serial, self.secret, t)

\* a _message that leaves out response.raise_for_status()
MessageOutcomeUnchecked(resp) ==
    IF resp.kind = "ConnectionError" THEN Raise([type |-> "ConnectionError"])
    ELSE Return(resp)

\* Robot._message: what the call returns or raises for the transport's answer
MessageOutcome(resp) ==
    IF resp.kind = "ConnectionError" THEN Raise([type |-> "ConnectionError"])
    ELSE IF RaisesForStatus(resp) THEN Raise(HTTPError(resp))
    ELSE Return(resp)

\* a _message that posts again when the first answer is an error
MessageRetrying(self, json, resp) ==
    /\ posted < MaxRequests
    /\ posted' = IF resp.kind = "response" /\ ~RaisesForStatus(resp)
                 THEN posted + 1 ELSE posted + 2
    /\ lastPost' = PreparedRequest(self, json, now)
    /\ lastResponse' = resp

\* Robot._message: one requests.post, whatever the answer
Message(self, json, resp) ==
    /\ posted < MaxRequests
    /\ posted' = posted + 1
    /\ lastPost' = PreparedRequest(self, json, now)
    /\ lastResponse' = resp

Command(cmd) == [reqId |-> "1", cmd |-> cmd]

\* a start_cleaning that sends the basic-2 parameters to every known version
StartCleaningBuildFull(serviceVersion, mode, navigationMode) ==
    IF serviceVersion \in {"basic-1", "minimal-2", "basic-2"} THEN
        [ok |-> TRUE,
         json |-> [reqId |-> "1", cmd |-> "startCleaning",
                   params |-> [category |-> 2, mode |-> mode, modifier |-> 1,
                               navigationMode |-> navigationMode]]]
    ELSE [ok |-> FALSE, exc |-> UnknownVersion(serviceVersion)]

\* the if/elif chain of Robot.start_cleaning
StartCleaningBuild(serviceVersion, mode, navigationMode) ==
    IF serviceVersion = "basic-1" THEN
        [ok |-> TRUE,
         json |-> [reqId |-> "1", cmd |-> "startCleaning",
                   params |-> [category |-> 2, mode |-> mode, modifier |-> 1]]]
    ELSE IF serviceVersion = "minimal-2" THEN
        [ok |-> TRUE,
         json |-> [reqId |-> "1", cmd |-> "startCleaning",
                   params |-> [category |-> 2, navigationMode |-> navigationMode]]]
    ELSE IF serviceVersion = "basic-2" THEN
        [ok |-> TRUE,
         json |-> [reqId |-> "1", cmd |-> "startCleaning",
                   params |-> [category |-> 2, mode |-> mode, modifier |-> 1,
                               navigationMode |-> navigationMode]]]
    ELSE [ok |-> FALSE, exc |-> UnknownVersion(serviceVersion)]

\* a cleaning command without the version guard
CleaningBuildUnguarded(serviceVersion, cmd) == [ok |-> TRUE, json |-> Command(cmd)]

\* a cleaning command that carries start_cleaning's category parameter
CleaningBuildWithParams(serviceVersion, cmd) ==
    IF serviceVersion \notin {"basic-1", "minimal-2", "basic-2"}
    THEN [ok |-> FALSE, exc |-> UnknownVersion(serviceVersion)]
    ELSE [ok |-> TRUE, json |-> [reqId |-> "1", cmd |-> cmd, params |-> [category |-> 2]]]

\* the guard of pause_cleaning, resume_cleaning, stop_cleaning and send_to_base
CleaningBuild(serviceVersion, cmd) ==
    IF serviceVersion \notin {"basic-1", "minimal-2", "basic-2"}
    THEN [ok |-> FALSE, exc |-> UnknownVersion(serviceVersion)]
    ELSE [ok |-> TRUE, json |-> Command(cmd)]

\* a call that builds a message from the service version and sends it, or raises
Dispatch(op, args, built) ==
    /\ pc = "ready"
    /\ IF built.ok
       THEN \E resp \in Responses :
                /\ Message(Self, built.json, resp)
                /\ result' = [op |-> op, args |-> args, outcome |-> MessageOutcome(resp)]
       ELSE /\ result' = [op |-> op, args |-> args, outcome |-> Raise(built.exc)]
            /\ UNCHANGED <<posted, lastPost, lastResponse>>
    /\ UNCHANGED <<pc, client, now, sigIn, sigOut>>

\* a call that sends one fixed command and returns the response
Send(op, args, cmd) ==
    /\ pc = "ready"
    /\ \E resp \in Responses :
            /\ Message(Self, Command(cmd), resp)
            /\ result' = [op |-> op, args |-> args, outcome |-> MessageOutcome(resp)]
    /\ UNCHANGED <<pc, client, now, sigIn, sigOut>>

\* a property read that answers from the previous response when there is one
ReadStateCached(op, resp) ==
    LET sent == MessageOutcome(resp)
        from == IF lastResponse.kind = "response" /\ lastResponse.json # NoBody
                THEN lastResponse ELSE resp
    IN  /\ Message(Self, Command("getRobotState"), resp)
        /\ result' = [op |-> op, args |-> <<>>,
                      outcome |-> IF sent.kind = "raise" THEN sent
                                  ELSE IF ResponseJson(resp).kind = "raise"
                                       THEN ResponseJson(resp)
                                  ELSE IF op = "schedule_enabled"
                                       THEN Return(from.json.details.isScheduleEnabled)
                                       ELSE Return(from.json)]

\* a property read: get_robot_state().json(), then the field the property extracts
ReadState(op, resp) ==
    LET sent == MessageOutcome(resp)
    IN  /\ Message(Self, Command("getRobotState"), resp)
        /\ result' = [op |-> op, args |-> <<>>,
                      outcome |-> IF sent.kind = "raise" THEN sent
                                  ELSE IF ResponseJson(resp).kind = "raise"
                                       THEN ResponseJson(resp)
                                  ELSE IF op = "schedule_enabled"
                                       THEN Return(resp.json.details.isScheduleEnabled)
                                       ELSE Return(resp.json)]

\* Robot.__init__
Construct ==
    /\ pc = "new"
    /\ url' = "https://nucleo.neatocloud.com/vendors/neato/robots/" \o Str(serial)
              \o "/messages"
    /\ headers' = [Accept |-> "application/vnd.neato.nucleo.v1"]
    /\ \E resp \in Responses :
        LET state == MessageOutcome(resp)
            sent  == IF state.kind = "raise" THEN state ELSE ResponseJson(resp)
        IN  /\ Message([serial |-> serial, secret |-> secret,
                        url |-> url', headers |-> headers'],
                       Command("getRobotState"), resp)
            /\ IF sent.kind = "raise"
               THEN /\ pc' = "failed"
                    /\ result' = [op |-> "__init__", args |-> <<>>, outcome |-> sent]
                    /\ UNCHANGED availableServices
               ELSE /\ pc' = "ready"
                    /\ availableServices' = resp.json.availableServices
                    /\ result' = [op |-> "__init__", args |-> <<>>,
                                  outcome |-> Return("None")]
    /\ UNCHANGED <<serial, secret, now, sigIn, sigOut>>

StartCleaning ==
    \E mode \in Modes, navigationMode \in NavigationModes :
        Dispatch("start_cleaning", <<mode, navigationMode>>,
                 StartCleaningBuild(availableServices.houseCleaning, mode, navigationMode))

PauseCleaning ==
    Dispatch("pause_cleaning", <<>>,
             CleaningBuild(availableServices.houseCleaning, "pauseCleaning"))

ResumeCleaning ==
    Dispatch("resume_cleaning", <<>>,
             CleaningBuild(availableServices.houseCleaning, "resumeCleaning"))

StopCleaning ==
    Dispatch("stop_cleaning", <<>>,
             CleaningBuild(availableServices.houseCleaning, "stopCleaning"))

SendToBase ==
    Dispatch("send_to_base", <<>>,
             CleaningBuild(availableServices.houseCleaning, "sendToBase"))

GetRobotState == Send("get_robot_state", <<>>, "getRobotState")

EnableSchedule == Send("enable_schedule", <<>>, "enableSchedule")

DisableSchedule == Send("disable_schedule", <<>>, "disableSchedule")

GetSchedule == Send("get_schedule", <<>>, "getSchedule")

\* the schedule_enabled getter
ScheduleEnabledGet ==
    /\ pc = "ready"
    /\ \E resp \in Responses : ReadState("schedule_enabled", resp)
    /\ UNCHANGED <<pc, client, now, sigIn, sigOut>>

\* a setter with the two branches swapped
SetterCommandSwapped(enable) == IF enable THEN "disableSchedule" ELSE "enableSchedule"

\* the command the schedule_enabled setter picks
SetterCommand(enable) == IF enable THEN "enableSchedule" ELSE "disableSchedule"

\* the schedule_enabled setter: the response is dropped, the assignment yields None
ScheduleEnabledSet ==
    /\ pc = "ready"
    /\ \E enable \in BOOLEAN, resp \in Responses :
        LET sent == MessageOutcome(resp)
        IN  /\ Message(Self, Command(SetterCommand(enable)), resp)
            /\ result' = [op |-> "schedule_enabled=", args |-> <<enable>>,
                          outcome |-> IF sent.kind = "raise" THEN sent
                                      ELSE Return("None")]
    /\ UNCHANGED <<pc, client, now, sigIn, sigOut>>

\* a state property that also refreshes self.availableServices from what it read
StateRefreshing ==
    /\ pc = "ready"
    /\ \E resp \in Responses :
        /\ ReadState("state", resp)
        /\ availableServices' =
                IF MessageOutcome(resp).kind = "return" /\ resp.json # NoBody
                THEN resp.json.availableServices ELSE availableServices
    /\ UNCHANGED <<pc, serial, secret, url, headers, now, sigIn, sigOut>>

\* the state property
State ==
    /\ pc = "ready"
    /\ \E resp \in Responses : ReadState("state", resp)
    /\ UNCHANGED <<pc, client, now, sigIn, sigOut>>

\* the wall clock moves between calls
Tick ==
    /\ \E t \in SampleTimes : t > now /\ now' = t
    /\ UNCHANGED <<pc, client, posted, lastPost, lastResponse, result, sigIn, sigOut>>

NoRequest == [url |-> "", json |-> <<>>, body |-> "", headers |-> <<>>]

ClientSerials == { <<"O", "p", "7">> }

ClientSecrets == { <<"k", "1">> }

Init ==
    /\ pc = "new"
    /\ serial \in ClientSerials
    /\ secret \in ClientSecrets
    /\ url = ""
    /\ headers = <<>>
    /\ availableServices = <<>>
    /\ now \in SampleTimes
    /\ posted = 0
    /\ lastPost = NoRequest
    /\ lastResponse = [kind |-> "none"]
    /\ result = NoResult
    /\ sigIn = <<>>
    /\ sigOut = <<>>

Next ==
    \/ Construct
    \/ StartCleaning
    \/ PauseCleaning
    \/ ResumeCleaning
    \/ StopCleaning
    \/ SendToBase
    \/ GetRobotState
    \/ EnableSchedule
    \/ DisableSchedule
    \/ GetSchedule
    \/ ScheduleEnabledGet
    \/ ScheduleEnabledSet
    \/ State
    \/ Tick

Spec == Init /\ [][Next]_vars

----------------------------------------------------------------------------
(* The signer on its own: two signing inputs that differ in one component *)

SignBodies == { JsonDumps(Command("getRobotState")), JsonDumps(Command("stopCleaning")) }

SignInputs == [serial : Serials, secret : Secrets, t : SampleTimes, body : SignBodies]

\* the Authorization header Auth.__call__ sets for one signing input
Sign(in) ==
    AuthCall([url |-> "", json |-> <<>>, body |-> in.body, headers |-> <<>>],
             in.serial, in.secret, in.t).headers.Authorization

SignPair(a, b) ==
    /\ sigOut = <<>>
    /\ sigIn' = <<a, b>>
    /\ sigOut' = <<Sign(a), Sign(b)>>
    /\ UNCHANGED <<pc, client, now, posted, lastPost, lastResponse, result>>

PerturbSerial ==
    \E s \in Serials \ {sigIn[1].serial} :
        SignPair(sigIn[1], [sigIn[1] EXCEPT !.serial = s])

PerturbSecret ==
    \E k \in Secrets \ {sigIn[1].secret} :
        SignPair(sigIn[1], [sigIn[1] EXCEPT !.secret = k])

PerturbTimestamp ==
    \E t \in SampleTimes \ {sigIn[1].t} :
        SignPair(sigIn[1], [sigIn[1] EXCEPT !.t = t])

PerturbBody ==
    \E b \in SignBodies \ {sigIn[1].body} :
        SignPair(sigIn[1], [sigIn[1] EXCEPT !.body = b])

SignInit ==
    /\ pc = "new"
    /\ serial \in ClientSerials
    /\ secret \in ClientSecrets
    /\ url = ""
    /\ headers = <<>>
    /\ availableServices = <<>>
    /\ now = 68255999
    /\ posted = 0
    /\ lastPost = NoRequest
    /\ lastResponse = [kind |-> "none"]
    /\ result = NoResult
    /\ \E a \in SignInputs : sigIn = <<a, a>>
    /\ sigOut = <<>>

SignNext ==
    \/ PerturbSerial
    \/ PerturbSecret
    \/ PerturbTimestamp
    \/ PerturbBody

SignSpec == SignInit /\ [][SignNext]_vars

----------------------------------------------------------------------------
(* Properties *)

\* a step that is a call of public operation op (the clock does not move in a call)
CallOf(op) == result'.op = op /\ now' = now

\* a step in which a request is dispatched
Posts == posted' # posted

CleaningOps == {"pause_cleaning", "resume_cleaning", "stop_cleaning", "send_to_base"}

CmdOf(op) ==
    CASE op = "pause_cleaning"  -> "pauseCleaning"
      [] op = "resume_cleaning" -> "resumeCleaning"
      [] op = "stop_cleaning"   -> "stopCleaning"
      [] op = "send_to_base"    -> "sendToBase"

\* C1: start_cleaning(mode, navigationMode) sends exactly one message, and its
\* content is fixed by availableServices['houseCleaning']: basic-1 gives
\* category 2, mode, modifier 1 and no navigationMode; minimal-2 gives category 2
\* and navigationMode, with no mode or modifier; basic-2 gives all four.
C1_StartCleaningMessage ==
    [][ (CallOf("start_cleaning") /\ availableServices.houseCleaning \in KnownVersions) =>
          LET v   == availableServices.houseCleaning
              m   == result'.args[1]
              n   == result'.args[2]
              msg == lastPost'.json
          IN  /\ posted' = posted + 1
              /\ DOMAIN msg = {"reqId", "cmd", "params"}
              /\ msg.reqId = "1"
              /\ msg.cmd = "startCleaning"
              /\ v = "basic-1" =>
                    msg.params = [category |-> 2, mode |-> m, modifier |-> 1]
              /\ v = "minimal-2" =>
                    msg.params = [category |-> 2, navigationMode |-> n]
              /\ v = "basic-2" =>
                    msg.params = [category |-> 2, mode |-> m, modifier |-> 1,
                                  navigationMode |-> n]
              /\ lastPost'.body = JsonDumps(msg)
      ]_vars

C1_Witness ==
    /\ result.op = "start_cleaning"
    /\ result.args = <<1, 2>>
    /\ availableServices.houseCleaning = "minimal-2"
    /\ lastPost.body = "{\"reqId\": \"1\", \"cmd\": \"startCleaning\", \"params\": {\"category\": 2, \"navigationMode\": 2}}"
    /\ posted = 2

\* C2: with a houseCleaning version outside basic-1, minimal-2, basic-2, each of
\* start_cleaning, pause_cleaning, resume_cleaning, stop_cleaning and send_to_base
\* raises an error that carries the version string, and sends no request.
C2_UnknownVersionFailsUnsent ==
    [][ (/\ pc = "ready"
         /\ \E op \in CleaningOps \cup {"start_cleaning"} : CallOf(op)
         /\ availableServices.houseCleaning \notin KnownVersions) =>
          /\ result'.outcome.kind = "raise"
          /\ result'.outcome.exc.type = "Exception"
          /\ result'.outcome.exc.message =
                "Version " \o availableServices.houseCleaning
                \o " of service houseCleaning is not known"
          /\ posted' = posted
          /\ lastPost' = lastPost
      ]_vars

C2_Witness ==
    /\ pc = "ready"
    /\ availableServices.houseCleaning = "weird-9"
    /\ result.op = "send_to_base"
    /\ result.outcome.kind = "raise"
    /\ result.outcome.exc.message = "Version weird-9 of service houseCleaning is not known"
    /\ posted = 1

\* C3: with a known houseCleaning version, pause_cleaning, resume_cleaning,
\* stop_cleaning and send_to_base each send exactly one message, with cmd
\* pauseCleaning, resumeCleaning, stopCleaning, sendToBase respectively, reqId "1"
\* and no params key.
C3_CleaningCommands ==
    [][ \A op \in CleaningOps :
          (CallOf(op) /\ availableServices.houseCleaning \in KnownVersions) =>
              /\ posted' = posted + 1
              /\ lastPost'.json = [reqId |-> "1", cmd |-> CmdOf(op)]
              /\ "params" \notin DOMAIN lastPost'.json
              /\ lastPost'.body = "{\"reqId\": \"1\", \"cmd\": \"" \o CmdOf(op) \o "\"}"
      ]_vars

C3_Witness ==
    /\ result.op = "resume_cleaning"
    /\ availableServices.houseCleaning = "basic-1"
    /\ lastPost.body = "{\"reqId\": \"1\", \"cmd\": \"resumeCleaning\"}"
    /\ result.outcome.kind = "return"
    /\ posted = 3

\* C4: every request dispatched carries a Date header holding the clock reading
\* of that send and an Authorization header "NEATOAPP " + HMAC-SHA256, keyed by
\* the client's secret, over lowercase(serial), that Date value and that
\* request's own body joined by newlines; the client's own headers are kept.
C4_EveryRequestSigned ==
    [][ Posts =>
          LET h == lastPost'.headers
          IN  /\ DOMAIN h = {"Accept", "Date", "Authorization"}
              /\ h.Accept = "application/vnd.neato.nucleo.v1"
              /\ h.Date = FormatDate(now)
              /\ h.Authorization =
                    <<"NEATOAPP ",
                      HmacSha256Hex(secret',
                          Str(Lower(serial')) \o "\n" \o h.Date \o "\n" \o lastPost'.body)>>
              /\ lastPost'.body = JsonDumps(lastPost'.json)
      ]_vars

C4_Witness ==
    /\ posted = 3
    /\ lastPost.json.cmd = "getSchedule"
    /\ lastPost.headers.Date = "Fri, 02 Nov 1973 08:05:09 GMT"
    /\ lastPost.headers.Authorization[2].msg =
          "op7\nFri, 02 Nov 1973 08:05:09 GMT\n{\"reqId\": \"1\", \"cmd\": \"getSchedule\"}"

C6_Common ==
    /\ posted' = posted + 1
    /\ lastPost'.json = [reqId |-> "1", cmd |-> "getRobotState"]
    /\ pc' \in {"ready", "failed"}
    /\ pc' = "ready" => /\ lastResponse'.kind = "response"
                        /\ availableServices' = lastResponse'.json.availableServices
    /\ lastResponse'.kind = "ConnectionError" =>
            /\ pc' = "failed"
            /\ result'.outcome.kind = "raise"
            /\ result'.outcome.exc.type = "ConnectionError"

C6_FailsWithHttpError ==
    /\ pc' = "failed"
    /\ result'.outcome.kind = "raise"
    /\ result'.outcome.exc.type = "HTTPError"
    /\ result'.outcome.exc.status = lastResponse'.status

C7_ReadsAreFresh ==
    [][ \A op \in {"state", "schedule_enabled"} :
          CallOf(op) =>
              /\ posted' = posted + 1
              /\ lastPost'.json = [reqId |-> "1", cmd |-> "getRobotState"]
              /\ result'.outcome.kind = "return" =>
                    /\ lastResponse'.kind = "response"
                    /\ op = "state" => result'.outcome.value = lastResponse'.json
                    /\ op = "schedule_enabled" =>
                          result'.outcome.value =
                              lastResponse'.json.details.isScheduleEnabled
      ]_vars

C7_Witness ==
    /\ result.op = "schedule_enabled"
    /\ result.outcome.kind = "return"
    /\ result.outcome.value = FALSE
    /\ lastResponse.json = StateDoc("minimal-2", FALSE)
    /\ availableServices.houseCleaning = "basic-1"
    /\ posted = 3

\* C8: assigning schedule_enabled sends exactly one request, enableSchedule for
\* true and disableSchedule for false, whatever the houseCleaning version.
C8_SetterSendsOne ==
    [][ CallOf("schedule_enabled=") =>
          /\ posted' = posted + 1
          /\ lastPost'.json =
                [reqId |-> "1",
                 cmd |-> IF result'.args[1] THEN "enableSchedule" ELSE "disableSchedule"]
      ]_vars

C8_Witness ==
    /\ result.op = "schedule_enabled="
    /\ result.args = <<TRUE>>
    /\ availableServices.houseCleaning = "weird-9"
    /\ lastPost.json.cmd = "enableSchedule"
    /\ result.outcome.kind = "return"
    /\ posted = 2

DiffersInOne(a, b) ==
    Cardinality({f \in {"serial", "secret", "t", "body"} : a[f] # b[f]}) = 1

\* a and b are the same up to zero bytes appended to one of them
SameUpToTrailingNul(a, b) ==
    \E n \in 0..BlockSize :
        LET pad == [i \in 1..n |-> NUL]
        IN  a = b \o pad \/ b = a \o pad

\* C9 as stated: two signing inputs that differ in exactly one of serial, secret,
\* timestamp and body never yield the same Authorization value.
C9_AnyChangeChangesSignature ==
    (sigOut # <<>> /\ DiffersInOne(sigIn[1], sigIn[2])) => sigOut[1] # sigOut[2]

\* C9: two signing inputs that differ in exactly one of serial, secret, timestamp
\* and body yield different Authorization values, unless the serials differ only
\* in letter case or the secrets only in trailing zero bytes; with the
\* digest taken as collision-free and secrets no longer than the hash block.
C9_EffectiveChangeChangesSignature ==
    (/\ sigOut # <<>>
     /\ DiffersInOne(sigIn[1], sigIn[2])
     /\ Lower(sigIn[1].serial) # Lower(sigIn[2].serial) \/ sigIn[1].serial = sigIn[2].serial
     /\ ~SameUpToTrailingNul(sigIn[1].secret, sigIn[2].secret)
            \/ sigIn[1].secret = sigIn[2].secret)
        => sigOut[1] # sigOut[2]

C9_Witness ==
    /\ sigOut # <<>>
    /\ sigIn[1].t # sigIn[2].t
    /\ sigIn[1].serial = sigIn[2].serial
    /\ sigIn[1].secret = sigIn[2].secret
    /\ sigIn[1].body = sigIn[2].body
    /\ sigOut[1] # sigOut[2]

\* C10: once construction has completed, no public operation changes serial,
\* secret, URL, request headers or availableServices, also when a later state
\* query reports another houseCleaning version.
C10_ClientFieldsFrozen ==
    [][ pc = "ready" => UNCHANGED <<pc, serial, secret, url, headers, availableServices>> ]_vars

C10_Witness ==
    /\ pc = "ready"
    /\ result.op = "state"
    /\ result.outcome.kind = "return"
    /\ result.outcome.value.availableServices.houseCleaning = "weird-9"
    /\ availableServices.houseCleaning = "basic-2"
    /\ url = "https://nucleo.neatocloud.com/vendors/neato/robots/Op7/messages"
    /\ headers = [Accept |-> "application/vnd.neato.nucleo.v1"]

====
